---------------------------- MODULE Spec2Model ----------------------------
(***************************************************************************)
(* A model of the esgf_metrics log-to-metrics pipeline                     *)
(* (src/esgf_metrics/parse.py, metrics.py, main.py, utils.py,              *)
(* database/models.py and the earlier revision src/usage_plotter/parse.py).*)
(*                                                                         *)
(* Five specifications share the module:                                   *)
(*   SpecBytes   bytes_to and the megabytes field applied to one byte      *)
(*               count and unit;                                           *)
(*   SpecFiscal  the calendar -> fiscal resolver applied to one            *)
(*               (year, month) pair drawn from Years x 1..12;              *)
(*   SpecAgg     LogParser's aggregator (_get_monthly_metrics,             *)
(*               _add_fiscal_date_cols, _get_fiscal_monthly_cumsums)       *)
(*               applied to a bounded frame of request records;            *)
(*   Spec        repeated runs of main() over a root directory to which    *)
(*               files are added between runs, with the log_file and       *)
(*               log_request tables of the store;                          *)
(*   SpecInterrupted  Spec with runs that may stop inside to_sql.          *)
(*   SpecAgg also applies the end of get_metrics' facet loop and the pivot *)
(*   of plot_cumsum_by_facet (plot.py, facets.py) to the aggregator's      *)
(*   frame.                                                                *)
(*                                                                         *)
(* Modelling conventions.                                                  *)
(*  - A pandas DataFrame is a sequence of records (rows, in row order).    *)
(*  - Columns are identified by the datum they hold: the aggregator's      *)
(*    labels calendar_year_month / calendar_year / calendar_month / mb     *)
(*    denote the columns year_month / year / month / megabytes that        *)
(*    _extract_dates and _parse_log_line build.  A column that no code     *)
(*    computes (fiscal_quarter) is absent from the rows.                   *)
(*  - Floats are exact rationals [n, d] in lowest terms.                   *)
(*  - The store is the append-only pair of tables log_file / log_request   *)
(*    with a serial id and the unique constraint on log_file.path; column  *)
(*    nullability is not modelled.                                         *)
(*  - A path is a record [dir, name]; its absolute string form is          *)
(*    LOGS_DIR/dir/name and PathLess is the string order of that form.     *)
(*  - A request path is the list of its "/"-separated segments, each the   *)
(*    list of its "%2F"-separated pieces; a dataset_id is the list of its  *)
(*    dot-joined parts.                                                    *)
(***************************************************************************)
EXTENDS Integers, Sequences, FiniteSets, TLC

VARIABLES
    \* --- SpecBytes
    conv_in,            \* the (bytes, to) arguments handed to bytes_to
    conv_out,           \* what bytes_to and _parse_log_line make of them
    \* --- SpecFiscal
    cal,                \* the calendar (year, month) handed to the resolver
    fiscal,             \* the rows the resolvers return for it, or NoValue
    \* --- SpecAgg
    agg_in,             \* self.df_log_request handed to the aggregator
    agg_facet,          \* the facet argument (NoValue for the unfaceted call)
    agg_out,            \* the frame _get_fiscal_monthly_cumsums returns
    parser_fiscal_facet_metrics, \* parser.fiscal_facet_metrics: (project, facet) -> rows
    pivot_table,        \* the values plot_cumsum_by_facet plots
    \* --- Spec
    fs,                 \* the files present under LOGS_DIR
    log_file,           \* store table log_file (row i has id i)
    log_request,        \* store table log_request
    pc,                 \* main()'s position
    runs,               \* number of runs of main() started
    paths,              \* the list _get_abs_paths returned in this run
    parsed_log_paths,   \* the paths _keep_unparsed_logs read from the store
    df_log_file,        \* parser.df_log_file
    df_log_request,     \* parser.df_log_request
    df_monthly_metrics, \* metrics.df_monthly_metrics (MetricsGenerator)
    df_fiscal_metrics,  \* metrics.df_fiscal_metrics
    fiscal_facet_metrics, \* metrics.fiscal_facet_metrics: (project, facet) -> frame
    err                 \* the exception that ended the run, or "none"

convVars == <<conv_in, conv_out>>
fiscalVars == <<cal, fiscal>>
aggVars == <<agg_in, agg_facet, agg_out, parser_fiscal_facet_metrics, pivot_table>>
runVars == <<fs, log_file, log_request, pc, runs, paths, parsed_log_paths,
             df_log_file, df_log_request, df_monthly_metrics, df_fiscal_metrics,
             fiscal_facet_metrics, err>>
vars == <<conv_in, conv_out, cal, fiscal, agg_in, agg_facet, agg_out,
          parser_fiscal_facet_metrics, pivot_table, fs, log_file,
          log_request, pc, runs, paths, parsed_log_paths, df_log_file, df_log_request,
          df_monthly_metrics, df_fiscal_metrics, fiscal_facet_metrics, err>>

\* Python's None / a DataFrame cell holding NaN, for text-valued cells.
NoValue == "None"

\* An attribute that holds a DataFrame or None.
NoFrame == [none |-> TRUE, rows |-> << >>]
Frame(rows) == [none |-> FALSE, rows |-> rows]

-----------------------------------------------------------------------------
(* Bounds *)

\* Number of calendar years the resolver is applied to.
NumYears == 9

\* Number of files that may be present under LOGS_DIR.
MaxFiles == 3

\* Number of runs of main().
MaxRuns == 2

\* Number of request records in a frame handed to the aggregator.
MaxRecords == 3

\* Largest multiplier k of the byte counts k * 1024^s + j handed to bytes_to.
MaxMantissa == 3

Years == 2019..(2019 + NumYears - 1)

-----------------------------------------------------------------------------
(* Generic helpers *)

RECURSIVE GCD(_, _)
GCD(a, b) == IF b = 0 THEN a ELSE GCD(b, a % b)

\* An exact rational in lowest terms.
Frac(n, d) == LET g == GCD(n, d) IN IF n = 0 THEN [n |-> 0, d |-> 1] ELSE [n |-> n \div g, d |-> d \div g]

FracAdd(a, b) ==
    LET l == (a.d \div GCD(a.d, b.d)) * b.d
    IN  Frac(a.n * (l \div a.d) + b.n * (l \div b.d), l)

FracDiv(a, k) == Frac(a.n, a.d * k)

FracLeq(a, b) ==
    LET l == (a.d \div GCD(a.d, b.d)) * b.d
    IN  a.n * (l \div a.d) <= b.n * (l \div b.d)

FracZero == [n |-> 0, d |-> 1]

\* Text is a sequence of one-character strings.
DigitChars == <<"0", "1", "2", "3", "4", "5", "6", "7", "8", "9">>

IndexOf(seq, x) == CHOOSE i \in 1..Len(seq) : seq[i] = x

RECURSIVE IntToDigits(_)
\* str(n) for n >= 0.
IntToDigits(n) ==
    IF n < 10 THEN <<DigitChars[n + 1]>>
    ELSE Append(IntToDigits(n \div 10), DigitChars[(n % 10) + 1])

RECURSIVE DigitsToInt(_)
\* int(s) / float(s) for a text of decimal digits.
DigitsToInt(s) ==
    IF Len(s) = 0 THEN 0
    ELSE 10 * DigitsToInt(SubSeq(s, 1, Len(s) - 1)) + (IndexOf(DigitChars, s[Len(s)]) - 1)

-----------------------------------------------------------------------------
(* Fiscal calendar resolver *)

\* The table computed by modular arithmetic, drifting at the year boundary.
E3SM_CY_TO_FY_MAP_modular == [m \in 1..12 |-> (m + 6) % 12]

\* parse.py: E3SM_CY_TO_FY_MAP
E3SM_CY_TO_FY_MAP ==
    (7 :> 1) @@ (8 :> 2) @@ (9 :> 3) @@ (10 :> 4) @@ (11 :> 5) @@ (12 :> 6) @@
    (1 :> 7) @@ (2 :> 8) @@ (3 :> 9) @@ (4 :> 10) @@ (5 :> 11) @@ (6 :> 12)

\* usage_plotter/parse.py: convert_to_fiscal_month
convert_to_fiscal_month(calendar_month) ==
    LET map_calendar_to_fiscal ==
            (7 :> 1) @@ (8 :> 2) @@ (9 :> 3) @@ (10 :> 4) @@ (11 :> 5) @@ (12 :> 6) @@
            (1 :> 7) @@ (2 :> 8) @@ (3 :> 9) @@ (4 :> 10) @@ (5 :> 11) @@ (6 :> 12)
    IN  map_calendar_to_fiscal[calendar_month]

\* Period.asfreq with the calendar-year quarterly frequency "Q-DEC".
PeriodAsfreqQDec(ym) == [qyear |-> ym.year, quarter |-> ((ym.month - 1) \div 3) + 1]

\* pandas Period(year, month, freq="M").asfreq("Q-JUN"): the quarter of the
\* fiscal year that ends in June; qyear is the year in which it ends.
PeriodAsfreqQJun(ym) ==
    [qyear   |-> IF ym.month > 6 THEN ym.year + 1 ELSE ym.year,
     quarter |-> (((ym.month + 5) % 12) \div 3) + 1]

\* Series.dt.strftime("%F") on a quarterly period: the fiscal year as text.
StrftimeF(q) == IntToDigits(q.qyear)

\* Series.astype("int") on that text.
AstypeInt(s) == DigitsToInt(s)

\* LogParser._add_fiscal_date_cols, one row.  Adds fiscal_year_quarter,
\* fiscal_year and fiscal_month; no fiscal_quarter column is created.
LogParser_add_fiscal_date_cols_row(row) ==
    LET fyq == PeriodAsfreqQJun(row.year_month)
    IN  [c \in DOMAIN row \cup {"fiscal_year_quarter", "fiscal_year", "fiscal_month"} |->
            CASE c = "fiscal_year_quarter" -> fyq
              [] c = "fiscal_year" -> AstypeInt(StrftimeF(fyq))
              [] c = "fiscal_month" -> E3SM_CY_TO_FY_MAP[row.month]
              [] OTHER -> row[c]]

\* LogParser._add_fiscal_date_cols on a frame.
LogParser_add_fiscal_date_cols(df) ==
    [i \in 1..Len(df) |-> LogParser_add_fiscal_date_cols_row(df[i])]

\* MetricsGenerator._add_fiscal_date_cols, one row holding year_month and month.
MetricsGenerator_add_fiscal_date_cols_row(row) ==
    LET fyq == PeriodAsfreqQJun(row.year_month)
    IN  [c \in DOMAIN row \cup {"fiscal_year_quarter", "fiscal_year", "fiscal_month"} |->
            CASE c = "fiscal_year_quarter" -> fyq
              [] c = "fiscal_year" -> AstypeInt(StrftimeF(fyq))
              [] c = "fiscal_month" -> E3SM_CY_TO_FY_MAP[row.month]
              [] OTHER -> row[c]]

\* usage_plotter/parse.py: resample_to_quarter, the fiscal columns of one row
\* (fiscal_yr stays text, fiscal_quarter is strftime("%q")).
resample_to_quarter_row(row) ==
    LET fy_quarter == PeriodAsfreqQJun(row.calendar_yr_month)
    IN  [fy_quarter     |-> fy_quarter,
         fiscal_yr      |-> StrftimeF(fy_quarter),
         fiscal_quarter |-> fy_quarter.quarter,
         fiscal_month   |-> convert_to_fiscal_month(row.calendar_month)]

-----------------------------------------------------------------------------
(* The root directory LOGS_DIR *)

\* The directories under LOGS_DIR, in the string order of their paths.
\* "esgf-data3" holds the sub-directory "old"; the others are leaves.
DirOrder == <<"aims3", "esgf-data1", "esgf-data3", "esgf-data3/old", "misc">>

\* os.walk's `dirs` for a directory is non-empty.
HasSubDirs(dir) == dir = "esgf-data3"

\* A file name: stem, an 8-digit date, an extension.
FileName(stem, date, ext) == [stem |-> stem, date |-> date, ext |-> ext]

StemOrder == <<"access_log-", "error_log-">>
ExtOrder == <<"", ".gz">>

\* str(Path(root, filename).absolute()), kept as its two variable parts.
AbsPath(dir, name) == [dir |-> dir, name |-> name]

\* The string order `<` of two absolute paths.
PathLess(p, q) ==
    LET kp == <<IndexOf(DirOrder, p.dir), IndexOf(StemOrder, p.name.stem),
                p.name.date, IndexOf(ExtOrder, p.name.ext)>>
        kq == <<IndexOf(DirOrder, q.dir), IndexOf(StemOrder, q.name.stem),
                q.name.date, IndexOf(ExtOrder, q.name.ext)>>
    IN  \E i \in 1..4 : kp[i] < kq[i] /\ \A j \in 1..(i - 1) : kp[j] = kq[j]

\* One access-log line, as the text properties and whitespace fields the
\* parser reads: has_E3SM / has_deny / has_200_206 are the substring tests of
\* _filter_log_lines on the raw text, nfields is len(line.split()), date is
\* the [dd/Mon/yyyy of field 3, path is field 6, status field 8, bytes
\* field 9.  Field 6 is kept as its "/"-separated segments, each segment as
\* its "%2F"-separated pieces.  earlier_stamps are the dates of the texts
\* "[dd/Mon/yyyy:" that occur in the line before field 3 (fields 0 to 2 are
\* free text of the client), in their order.  " 200 " / " 206 " occur in the text when a field between two
\* blanks is 200 or 206: here the status or the byte count.
LogLineText(date, path, status, bytes) ==
    [has_E3SM    |-> TRUE,
     has_deny    |-> FALSE,
     has_200_206 |-> \/ status \in {"200", "206"}
                     \/ bytes \in {<<"2", "0", "0">>, <<"2", "0", "6">>},
     nfields     |-> 12,
     ip          |-> "198.51.100.7",
     earlier_stamps |-> << >>,
     date        |-> date,
     path        |-> [i \in 1..Len(path) |-> <<path[i]>>],
     status      |-> status,
     bytes       |-> bytes,
     access      |-> "GET"]

Date(y, m, d) == [year |-> y, month |-> m, day |-> d]

\* Request paths (field 6), as their "/"-separated segments; the first
\* segment is empty because the path starts with "/".
NativePath ==
    <<"", "thredds", "fileServer", "user_pub_work", "E3SM", "1_0", "historical", "1deg_atm_60-30km_ocean", "ocean",
                "native", "model-output", "mon", "ens1", "v1", "mpaso.hist.nc">>
CMIP6Path ==
    <<"", "thredds", "fileServer", "user_pub_work", "CMIP6", "CMIP", "E3SM-Project", "E3SM-1-0", "historical",
                "r1i1p1f1", "Amon", "wap", "gr", "v20191220", "wap_Amon.nc">>
\* A path without "/user_pub_work/".
UnanchoredPath == <<"", "thredds", "fileServer", "E3SM", "missing.nc">>

\* Field 6 of a request for CMIP6Path whose client escaped every "/" after
\* "/thredds/" as "%2F".
EscapedCMIP6Path ==
    << <<"">>, <<"thredds">>, SubSeq(CMIP6Path, 3, Len(CMIP6Path)) >>

OneMiB == <<"1", "0", "4", "8", "5", "7", "6">>
HalfMiB == <<"5", "2", "4", "2", "8", "8">>

\* The files that may appear under LOGS_DIR, with their lines.
FileUniverse ==
    { [dir |-> "esgf-data1", name |-> FileName("access_log-", 20190615, ""),
       lines |-> << LogLineText(Date(2019, 6, 14), NativePath, "200", OneMiB),
                    LogLineText(Date(2019, 6, 15), NativePath, "206", <<"-">>) >>],
      [dir |-> "esgf-data1", name |-> FileName("access_log-", 20190715, ""),
       lines |-> << LogLineText(Date(2019, 6, 30), NativePath, "200", HalfMiB),
                    LogLineText(Date(2019, 7, 1), NativePath, "200", OneMiB),
                    LogLineText(Date(2019, 7, 2), CMIP6Path, "206", OneMiB),
                    LogLineText(Date(2019, 7, 3), NativePath, "404", <<"2", "0", "0">>),
                    [LogLineText(Date(2019, 7, 15), NativePath, "200", OneMiB)
                        EXCEPT !.earlier_stamps = <<Date(2019, 1, 1)>>] >>],
      [dir |-> "aims3", name |-> FileName("access_log-", 20191215, ""),
       lines |-> << LogLineText(Date(2019, 12, 15), NativePath, "200", OneMiB),
                    LogLineText(Date(2019, 12, 16), UnanchoredPath, "200", HalfMiB) >>],
      [dir |-> "aims3", name |-> FileName("access_log-", 20191220, ""),
       lines |-> << LogLineText(Date(2019, 12, 19), NativePath, "200", OneMiB),
                    [LogLineText(Date(2019, 12, 20), NativePath, "200", HalfMiB)
                        EXCEPT !.nfields = 10] >>],
      [dir |-> "aims3", name |-> FileName("access_log-", 20200115, ""),
       lines |-> << LogLineText(Date(2019, 12, 31), NativePath, "206", HalfMiB),
                    LogLineText(Date(2020, 1, 2), NativePath, "200", OneMiB),
                    [LogLineText(Date(2020, 1, 3), CMIP6Path, "200", HalfMiB)
                        EXCEPT !.path = EscapedCMIP6Path] >>],
      [dir |-> "esgf-data3/old", name |-> FileName("access_log-", 20190720, ""),
       lines |-> << LogLineText(Date(2019, 7, 20), NativePath, "404", OneMiB) >>],
      [dir |-> "esgf-data1", name |-> FileName("access_log-", 20190901, ".gz"),
       lines |-> << >>],
      [dir |-> "esgf-data1", name |-> FileName("error_log-", 20190615, ""),
       lines |-> << >>],
      [dir |-> "esgf-data3", name |-> FileName("access_log-", 20190715, ""),
       lines |-> << LogLineText(Date(2019, 7, 15), NativePath, "200", OneMiB) >>],
      [dir |-> "misc", name |-> FileName("access_log-", 20190801, ""),
       lines |-> << LogLineText(Date(2019, 8, 1), NativePath, "200", OneMiB) >>],
      [dir |-> "misc", name |-> FileName("access_log-", 20190802, ".gz"),
       lines |-> << >>] }

FilePath(f) == AbsPath(f.dir, f.name)

\* open(log_path): the file at a path.
FileAt(path) == CHOOSE f \in FileUniverse : FilePath(f) = path

-----------------------------------------------------------------------------
(* utils.py *)

\* bytes_to(bytes, to, bsize=1024): float(bytes) / bsize ** map_sizes[to],
\* with map_sizes = {"kb": 1, "mb": 2, "gb": 3, "t": 4}.
\* float(bytes) raises ValueError on a text that is no number; map_sizes[to]
\* raises KeyError on a unit that is no key.
bytes_to(bytes, to) ==
    LET map_sizes == [kb |-> 1, mb |-> 2, gb |-> 3, t |-> 4]
        bsize == 1024
    IN  IF \E i \in 1..Len(bytes) : bytes[i] \notin { DigitChars[k] : k \in 1..10 }
        THEN [err |-> "ValueError", value |-> FracZero]
        ELSE IF to \notin DOMAIN map_sizes THEN [err |-> "KeyError", value |-> FracZero]
        ELSE [err |-> "none", value |-> Frac(DigitsToInt(bytes), bsize ^ map_sizes[to])]

\* _parse_log_line: bytes_to(attrs[9], "mb") if "-" not in attrs[9] else 0
MegabytesField(bytes) ==
    IF \A i \in 1..Len(bytes) : bytes[i] # "-"
    THEN bytes_to(bytes, "mb").value
    ELSE FracZero

-----------------------------------------------------------------------------
(* Log discovery and dedup: LogParser._parse_log_files *)

\* `"access_log-" in filename`
ContainsAccessLog(name) == name.stem = "access_log-"

\* The os.walk loop without `if dirs: continue`.
WalkPaths_every_dir(files) ==
    { FilePath(f) : f \in { g \in files : ContainsAccessLog(g.name) } }

\* _get_abs_paths, the os.walk loop: the files of leaf directories whose name
\* contains "access_log-".
WalkPaths(files) ==
    { FilePath(f) : f \in { g \in files : ~HasSubDirs(g.dir) /\ ContainsAccessLog(g.name) } }

\* SELECT path from log_file
StorePaths(table) == { table[i].path : i \in 1..Len(table) }

\* _keep_unparsed_logs that forgets the set difference.
LogParser_keep_all_logs(ps, parsed) == ps

\* _keep_unparsed_logs that keeps the parsed paths instead (intersection).
LogParser_keep_parsed_logs(ps, parsed) == ps \cap parsed

\* _keep_unparsed_logs: list(set(paths).difference(set(parsed_log_paths))).
\* The list's order is arbitrary; the caller sorts it.
LogParser_keep_unparsed_logs(ps, parsed) == ps \ parsed

RECURSIVE SortedPaths(_)
\* sorted(paths)
SortedPaths(S) ==
    IF S = {} THEN << >>
    ELSE LET least == CHOOSE x \in S : \A y \in S \ {x} : PathLess(x, y)
         IN  <<least>> \o SortedPaths(S \ {least})

\* _get_abs_paths (debug_mode is False): IndexError when the walk finds no log.
LogParser_get_abs_paths(files, parsed) ==
    IF WalkPaths(files) = {}
    THEN [err |-> "IndexError", paths |-> << >>]
    ELSE [err |-> "none",
          paths |-> SortedPaths(LogParser_keep_unparsed_logs(WalkPaths(files), parsed))]

\* The node pattern with the esgf-data alternative left out: r"(aims3)".
ExtractNode_aims3_only(path) == IF path.dir = "aims3" THEN "aims3" ELSE NoValue

\* df.path.str.extract(r"(aims3|esgf-data\d{1})"): the first node token in
\* the path, NaN when there is none.
ExtractNode(path) ==
    CASE path.dir = "aims3" -> "aims3"
      [] path.dir = "esgf-data1" -> "esgf-data1"
      [] path.dir \in {"esgf-data3", "esgf-data3/old"} -> "esgf-data3"
      [] OTHER -> NoValue

\* df.path.str.extract(r"(access_log-\d{8}$)"): the name when the path ends
\* with the prefix and 8 digits, NaN otherwise.
ExtractFilename(path) ==
    IF path.name.stem = "access_log-" /\ path.name.ext = "" /\ Len(IntToDigits(path.name.date)) = 8
    THEN <<path.name.stem>> \o IntToDigits(path.name.date)
    ELSE NoValue

\* df.filename.str.extract(r"(\d{8}$)")
ExtractDateDigits(filename) == SubSeq(filename, Len(filename) - 7, Len(filename))

\* pd.to_datetime(df.date, format="%Y%m%d") on the 8 trailing digits.
ToDatetimeYmd(digits) ==
    [year  |-> DigitsToInt(SubSeq(digits, 1, 4)),
     month |-> DigitsToInt(SubSeq(digits, 5, 6)),
     day   |-> DigitsToInt(SubSeq(digits, 7, 8))]

\* _parse_log_files: [err, paths, df]; df is NoFrame for "return None".
LogParser_parse_log_files(files, parsed) ==
    LET got == LogParser_get_abs_paths(files, parsed)
        ps == got.paths
        withNode == [i \in 1..Len(ps) |-> [path |-> ps[i], node |-> ExtractNode(ps[i])]]
        withName == [i \in 1..Len(ps) |->
                        [path |-> ps[i], node |-> withNode[i].node,
                         filename |-> ExtractFilename(ps[i])]]
        HasName(r) == r.filename # NoValue
        kept == SelectSeq(withName, HasName)
        dated == [i \in 1..Len(kept) |->
                    LET d == ToDatetimeYmd(ExtractDateDigits(kept[i].filename))
                    IN  [path |-> kept[i].path, node |-> kept[i].node,
                         filename |-> kept[i].filename, date |-> d,
                         year_month |-> [year |-> d.year, month |-> d.month],
                         year |-> d.year, month |-> d.month]]
    IN  IF got.err # "none" THEN [err |-> got.err, paths |-> ps, df |-> NoFrame]
        ELSE IF Len(ps) = 0 THEN [err |-> "none", paths |-> ps, df |-> NoFrame]
        ELSE IF \E i \in 1..Len(ps) : withNode[i].node = NoValue
             THEN [err |-> "ValueError", paths |-> ps, df |-> NoFrame]
        ELSE [err |-> "none", paths |-> ps,
              df |-> Frame(LogParser_add_fiscal_date_cols(dated))]

-----------------------------------------------------------------------------
(* Line filter and record parser: LogParser._parse_log_requests *)

\* _filter_log_lines: the lines of a file that pass the substring tests.
LogParser_filter_log_lines(log_path) ==
    LET Relevant(line) == line.has_E3SM /\ ~line.has_deny /\ line.has_200_206
    IN  SelectSeq(FileAt(log_path).lines, Relevant)

RECURSIVE Flatten(_)
\* The concatenation of a list of lists.
Flatten(lists) == IF Len(lists) = 0 THEN << >> ELSE Head(lists) \o Flatten(Tail(lists))

\* attrs[6].replace("%2F", "/") without the replacement: what follows the
\* first "%2F" of a segment is not seen as segments.
Replace2F_none(raw) == [i \in 1..Len(raw) |-> raw[i][1]]

\* attrs[6].replace("%2F", "/"): every piece becomes a segment.
Replace2F(raw) == Flatten(raw)

\* split("/") of the whole path, without the split at the anchor.
SplitAfterAnchor_whole(segs) == segs

\* str.split("/user_pub_work/")[-1].split("/") on a path given by its
\* segments: the segments after the last inner "user_pub_work" segment, the
\* whole list when there is none.
SplitAfterAnchor(segs) ==
    LET at == { k \in 2..(Len(segs) - 1) : segs[k] = "user_pub_work" }
    IN  IF at = {} THEN segs
        ELSE SubSeq(segs, (CHOOSE k \in at : \A l \in at : l <= k) + 1, Len(segs))

\* ".".join(parts), kept as the list of joined parts: joining no part and
\* joining the one empty part both give the empty string.
JoinDots(parts) == IF parts = <<"">> THEN << >> ELSE parts

\* _extract_ids_from_dataset_path: the segments after "/user_pub_work/";
\* all but the last form dataset_id, the last is file_id.
LogParser_extract_ids_from_dataset_path(log_line) ==
    LET ds_path == SplitAfterAnchor(log_line.dataset_path)
    IN  [log_line EXCEPT !.dataset_id = JoinDots(SubSeq(ds_path, 1, Len(ds_path) - 1)),
                         !.file_id = ds_path[Len(ds_path)]]

\* _extract_facets_from_dataset_id: `option` is the list of a facet's
\* declared values, which is never an element of the list of segments, so
\* facet_value stays None; the assignment after the inner loop writes it to
\* the last facet of each project (time_frequency, variable_id).
LogParser_extract_facets_from_dataset_id(log_line) ==
    [log_line EXCEPT !.time_frequency = NoValue, !.variable_id = NoValue]

\* _parse_log_line
LogParser_parse_log_line(log_path, line) ==
    LET dataset_path == Replace2F(line.path)
        log_line ==
            [log_path     |-> log_path,
             log_line     |-> line,
             ip_address   |-> line.ip,
             date         |-> NoValue,
             year_month   |-> NoValue,
             year         |-> NoValue,
             month        |-> NoValue,
             access_type  |-> line.access,
             status_code  |-> line.status,
             dataset_path |-> dataset_path,
             bytes        |-> line.bytes,
             megabytes    |-> MegabytesField(line.bytes),
             dataset_id   |-> << >>,
             file_id      |-> "",
             project      |-> IF \A i \in 2..Len(dataset_path) :
                                    dataset_path[i] # "E3SM-Project"
                              THEN "E3SM" ELSE "E3SM CMIP6",
             realm          |-> NoValue,
             data_type      |-> NoValue,
             variable_id    |-> NoValue,
             time_frequency |-> NoValue,
             activity       |-> NoValue]
    IN  LogParser_extract_facets_from_dataset_id(
            LogParser_extract_ids_from_dataset_path(log_line))

\* _keep_reqs_with_data without the selection.
LogParser_keep_all_reqs(df) == df

\* _keep_reqs_with_data: df[df["bytes"] != "-"]
LogParser_keep_reqs_with_data(df) ==
    LET HasData(r) == r.bytes # <<"-">>
    IN  SelectSeq(df, HasData)

\* df.log_line.str.extract(r"(?<=\[)(\d{2}\/\w{3}\/\d{4})(?=:)"): the first
\* match in the whole line.
FirstStampInLine(line) ==
    IF Len(line.earlier_stamps) > 0 THEN line.earlier_stamps[1] ELSE line.date

\* _extract_dates: the date of the line's first [dd/Mon/yyyy: text and its
\* parts.
LogParser_extract_dates(df) ==
    [i \in 1..Len(df) |->
        LET d == FirstStampInLine(df[i].log_line)
        IN  [df[i] EXCEPT !.date = d,
                          !.year_month = [year |-> d.year, month |-> d.month],
                          !.year = d.year,
                          !.month = d.month]]

RECURSIVE ParsedLines(_)
\* the loop of _parse_log_requests over log_paths
ParsedLines(log_paths) ==
    IF Len(log_paths) = 0 THEN << >>
    ELSE LET path == Head(log_paths)
             lines == LogParser_filter_log_lines(path)
         IN  [i \in 1..Len(lines) |-> LogParser_parse_log_line(path, lines[i])]
                \o ParsedLines(Tail(log_paths))

\* _parse_log_line's attrs[6], attrs[8], attrs[9], attrs[11] on a line with
\* fewer than 12 fields: IndexError.
AttrsIndexError(line) == line.nfields < 12

\* _parse_log_requests: [err, df].  Nothing catches the IndexError of
\* _parse_log_line.  pd.DataFrame([]) has no columns, so df["bytes"] raises
\* KeyError when no line was retained.
LogParser_parse_log_requests(df_files) ==
    IF df_files.none THEN [err |-> "none", df |-> NoFrame]
    ELSE LET log_paths == [i \in 1..Len(df_files.rows) |-> df_files.rows[i].path]
             retained == [i \in 1..Len(log_paths) |-> LogParser_filter_log_lines(log_paths[i])]
             log_lines == ParsedLines(log_paths)
         IN  IF \E i \in 1..Len(retained) : \E j \in 1..Len(retained[i]) :
                    AttrsIndexError(retained[i][j])
             THEN [err |-> "IndexError", df |-> NoFrame]
             ELSE IF Len(log_lines) = 0 THEN [err |-> "KeyError", df |-> NoFrame]
             ELSE [err |-> "none",
                   df |-> Frame(LogParser_extract_dates(
                                    LogParser_keep_reqs_with_data(log_lines)))]

-----------------------------------------------------------------------------
(* Persistence: LogParser.to_sql and the log_file / log_request tables *)

\* str(Period) for a monthly period: "YYYY-MM".
PeriodMonthToStr(ym) ==
    IntToDigits(ym.year) \o <<"-">> \o
        (IF ym.month < 10 THEN <<"0">> ELSE << >>) \o IntToDigits(ym.month)

\* str(Period) for a quarterly period: "YYYYQn".
PeriodQuarterToStr(q) == IntToDigits(q.qyear) \o <<"Q">> \o IntToDigits(q.quarter)

\* _cast_period_cols_to_str on the log_file frame.
LogParser_cast_period_cols_to_str_file(df) ==
    [i \in 1..Len(df) |->
        [df[i] EXCEPT !.year_month = PeriodMonthToStr(@),
                      !.fiscal_year_quarter = PeriodQuarterToStr(@)]]

\* _cast_period_cols_to_str on the log_request frame.
LogParser_cast_period_cols_to_str_request(df) ==
    [i \in 1..Len(df) |-> [df[i] EXCEPT !.year_month = PeriodMonthToStr(@)]]

\* UniqueConstraint("path") of LogFile: the insert of `rows` is accepted.
UniquePathAccepts(table, rows) ==
    /\ \A i \in 1..Len(rows) : rows[i].path \notin StorePaths(table)
    /\ \A i, j \in 1..Len(rows) : rows[i].path = rows[j].path => i = j

\* INSERT into log_file: the serial primary key continues the table's.
InsertLogFile(table, rows) ==
    table \o [i \in 1..Len(rows) |->
                [c \in DOMAIN rows[i] \cup {"id"} |->
                    IF c = "id" THEN Len(table) + i ELSE rows[i][c]]]

\* The merge that gives every request the id of the table's last row.
MergeLogId_last_row(requests, table) ==
    [i \in 1..Len(requests) |->
        [c \in (DOMAIN requests[i] \ {"log_path"}) \cup {"log_id"} |->
            IF c = "log_id" THEN table[Len(table)].id ELSE requests[i][c]]]

\* df_log_request.merge(df_log_file_cur, on=["log_path"], how="left") and
\* drop(["log_path"]): one output row per matching log_file row, a NaN
\* log_id when none matches.
MergeLogId(requests, table) ==
    LET Matches(r) == { k \in 1..Len(table) : table[k].path = r.log_path }
        RECURSIVE Joined(_)
        Joined(i) ==
            IF i > Len(requests) THEN << >>
            ELSE LET r == requests[i]
                     row(id) == [c \in (DOMAIN r \ {"log_path"}) \cup {"log_id"} |->
                                    IF c = "log_id" THEN id ELSE r[c]]
                     RECURSIVE Each(_)
                     Each(S) == IF S = {} THEN << >>
                                ELSE LET k == CHOOSE k \in S : \A l \in S : k <= l
                                     IN  <<row(table[k].id)>> \o Each(S \ {k})
                 IN  (IF Matches(r) = {} THEN <<row(0)>> ELSE Each(Matches(r)))
                        \o Joined(i + 1)
    IN  Joined(1)

\* to_sql that appends nothing.
LogParser_to_sql_skipped(df_files, df_requests, file_table, request_table) ==
    [err |-> "none", log_file |-> file_table, log_request |-> request_table]

\* LogParser.to_sql: [err, log_file, log_request].
LogParser_to_sql(df_files, df_requests, file_table, request_table) ==
    LET rows == LogParser_cast_period_cols_to_str_file(df_files)
        reqs == LogParser_cast_period_cols_to_str_request(df_requests)
    IN  IF ~UniquePathAccepts(file_table, rows)
        THEN [err |-> "IntegrityError", log_file |-> file_table,
              log_request |-> request_table]
        ELSE LET cur == InsertLogFile(file_table, rows)
             IN  [err |-> "none", log_file |-> cur,
                  log_request |-> request_table \o MergeLogId(reqs, cur)]

-----------------------------------------------------------------------------
(* MetricsGenerator *)

\* facets.py: PROJECTS = get_args(Project)
PROJECTS == {"E3SM Native", "E3SM CMIP6"}

\* facets.py: AVAILABLE_FACETS, the facet names declared for each project.
AVAILABLE_FACETS ==
    [p \in {"E3SM Native", "E3SM CMIP6"} |->
        IF p = "E3SM Native" THEN {"realm", "data_type", "time_frequency"}
        ELSE {"realm", "data_type", "activity", "variable_id"}]

\* facets.py: AVAILABLE_FACETS, the values declared for each facet of each
\* project, in the order of their lists.
FacetOptions ==
    [p \in {"E3SM Native", "E3SM CMIP6"} |->
        IF p = "E3SM Native"
        THEN [realm |-> <<
                    "ocean", "atmos", "land", "sea-ice" >>,
              data_type |-> <<
                    "time-series", "climo", "model-output", "mapping",
                    "restart" >>,
              time_frequency |-> <<
                    "3hr", "3hr_snap", "5day_snap", "6hr", "6hr_ave",
                    "6hr_snap", "day", "day_cosp", "fixed", "mon", "monClim" >>]
        ELSE [realm |-> <<
                    "ocean", "atmos", "land", "sea-ice" >>,
              data_type |-> <<
                    "time-series", "climo", "model-output", "mapping",
                    "restart" >>,
              activity |-> <<
                    "C4MIP", "CMIP", "DAMIP", "ScenarioMIP" >>,
              variable_id |-> <<
                    "abs550aer", "albisccp", "areacella", "areacello",
                    "cLitter", "cProduct", "cSoilFast", "cSoilMedium",
                    "cSoilSlow", "cVeg", "cl", "clcalipso", "clhcalipso",
                    "cli", "clisccp", "clivi", "cllcalipso", "clmcalipso",
                    "clt", "cltcalipso", "cltisccp", "clw", "clwvi",
                    "evspsbl", "evspsblsoi", "evspsblveg", "fFire",
                    "fHarvest", "fsitherm", "gpp", "hfds", "hfls",
                    "hfsifrazil", "hfss", "hur", "hus", "huss", "lai",
                    "masscello", "masso", "mlotst", "mrfso", "mrro", "mrros",
                    "mrso", "mrsos", "msftmz", "nbp", "o3", "od550aer",
                    "orog", "pbo", "pctisccp", "pfull", "phalf", "pr", "prc",
                    "prsn", "prveg", "prw", "ps", "psl", "pso", "ra", "rh",
                    "rlds", "rldscs", "rlus", "rlut", "rlutcs", "rsds",
                    "rsdscs", "rsdt", "rsus", "rsuscs", "rsut", "rsutcs",
                    "rtmt", "sfcWind", "sfdsi", "sftlf", "siconc", "simass",
                    "sisnmass", "sisnthick", "sitemptop", "sithick",
                    "sitimefrac", "siu", "siv", "so", "sob", "soga", "sos",
                    "sosga", "ta", "tas", "tauu", "tauuo", "tauv", "tauvo",
                    "thetao", "thetaoga", "thkcello", "tob", "tos", "tosga",
                    "tran", "ts", "tsl", "ua", "uo", "va", "vo", "volcello",
                    "volo", "wap", "wfo", "wo", "zg", "zhalfo", "zos" >>]]

RECURSIVE SumInt(_)
SumInt(s) == IF Len(s) = 0 THEN 0 ELSE Head(s) + SumInt(Tail(s))

RECURSIVE SumFrac(_)
SumFrac(s) == IF Len(s) = 0 THEN FracZero ELSE FracAdd(Head(s), SumFrac(Tail(s)))

RECURSIVE SetToSeq(_)
SetToSeq(S) == IF S = {} THEN << >>
               ELSE LET x == CHOOSE x \in S : TRUE IN <<x>> \o SetToSeq(S \ {x})

\* The GROUP BY query of MetricsGenerator._get_monthly_metrics: one row per
\* (lr.project, lf.year, lf.month) of log_request LEFT JOIN log_file.
MonthlyQueryRows(file_table, request_table) ==
    LET lf(r) == file_table[CHOOSE k \in 1..Len(file_table) : file_table[k].id = r.log_id]
        Key(r) == [project |-> r.project, year |-> lf(r).year, month |-> lf(r).month]
        keys == { Key(request_table[i]) : i \in 1..Len(request_table) }
        group(k) == LET In(r) == Key(r) = k IN SelectSeq(request_table, In)
    IN  { [year |-> k.year, month |-> k.month, project |-> k.project,
           sum_requests |-> Len(group(k)),
           sum_gigabytes |-> SumFrac([i \in 1..Len(group(k)) |->
                                        FracDiv(group(k)[i].megabytes, 1024)])]
          : k \in keys }

\* groupby(["year", "project"]) cumsum of the two sums, in the frame's row order.
MonthlyCumsumByCalendarYear(df) ==
    [i \in 1..Len(df) |->
        LET before == { j \in 1..i : df[j].year = df[i].year /\ df[j].project = df[i].project }
            prior == SetToSeq(before)
        IN  [c \in DOMAIN df[i] \cup {"cumsum_requests", "cumsum_gigabytes"} |->
                CASE c = "cumsum_requests" ->
                        SumInt([k \in 1..Len(prior) |-> df[prior[k]].sum_requests])
                  [] c = "cumsum_gigabytes" ->
                        SumFrac([k \in 1..Len(prior) |-> df[prior[k]].sum_gigabytes])
                  [] OTHER -> df[i][c]]]

\* MetricsGenerator._get_monthly_metrics.  The query has no ORDER BY: `order`
\* is the order in which the store returns the group rows.
MetricsGenerator_get_monthly_metrics(order) == MonthlyCumsumByCalendarYear(order)

\* The row orders the store may return for a set of group rows.
RowOrders(rows) ==
    LET base == SetToSeq(rows)
    IN  { [i \in 1..Len(base) |-> base[perm[i]]] : perm \in Permutations(1..Len(base)) }

-----------------------------------------------------------------------------
(* Spec: runs of main() *)

InitConvIdle == conv_in = NoValue /\ conv_out = NoFrame
InitFiscalIdle == cal = NoValue /\ fiscal = NoFrame
InitAggIdle ==
    /\ agg_in = << >>
    /\ agg_facet = NoValue
    /\ agg_out = NoFrame
    /\ parser_fiscal_facet_metrics = << >>
    /\ pivot_table = NoFrame
InitRunIdle ==
    /\ fs = {}
    /\ log_file = << >>
    /\ log_request = << >>
    /\ pc = "idle"
    /\ runs = 0
    /\ paths = << >>
    /\ parsed_log_paths = {}
    /\ df_log_file = NoFrame
    /\ df_log_request = NoFrame
    /\ df_monthly_metrics = NoFrame
    /\ df_fiscal_metrics = NoFrame
    /\ fiscal_facet_metrics = << >>
    /\ err = "none"

Init == InitConvIdle /\ InitFiscalIdle /\ InitAggIdle /\ InitRunIdle

\* A log file appears under LOGS_DIR between two runs.
AddFile ==
    /\ pc = "idle"
    /\ Cardinality(fs) < MaxFiles
    /\ \E f \in FileUniverse \ fs : fs' = fs \cup {f}
    /\ UNCHANGED <<log_file, log_request, pc, runs, paths, parsed_log_paths,
                   df_log_file, df_log_request, df_monthly_metrics,
                   df_fiscal_metrics, fiscal_facet_metrics, err>>
    /\ UNCHANGED <<convVars, fiscalVars, aggVars>>

\* main(): parser = LogParser()
LogParser_init ==
    /\ pc = "idle"
    /\ runs < MaxRuns
    /\ LET parsed == StorePaths(log_file)
           files == LogParser_parse_log_files(fs, parsed)
           reqs == IF files.err = "none" THEN LogParser_parse_log_requests(files.df)
                   ELSE [err |-> files.err, df |-> NoFrame]
       IN  /\ runs' = runs + 1
           /\ parsed_log_paths' = parsed
           /\ paths' = files.paths
           /\ df_log_file' = files.df
           /\ df_log_request' = reqs.df
           /\ err' = reqs.err
           /\ pc' = IF reqs.err = "none" THEN "parsed" ELSE "done"
    /\ UNCHANGED <<fs, log_file, log_request, df_monthly_metrics,
                   df_fiscal_metrics, fiscal_facet_metrics>>
    /\ UNCHANGED <<convVars, fiscalVars, aggVars>>

\* main(): if parser.df_log_file is not None and parser.df_log_request is
\* not None: parser.to_sql()
main_to_sql ==
    /\ pc = "parsed"
    /\ IF ~df_log_file.none /\ ~df_log_request.none
       THEN LET r == LogParser_to_sql(df_log_file.rows, df_log_request.rows,
                                      log_file, log_request)
            IN  /\ log_file' = r.log_file
                /\ log_request' = r.log_request
                /\ err' = r.err
                /\ pc' = IF r.err = "none" THEN "stored" ELSE "done"
       ELSE /\ UNCHANGED <<log_file, log_request, err>>
            /\ pc' = "stored"
    /\ UNCHANGED <<fs, runs, paths, parsed_log_paths, df_log_file, df_log_request,
                   df_monthly_metrics, df_fiscal_metrics, fiscal_facet_metrics>>
    /\ UNCHANGED <<convVars, fiscalVars, aggVars>>

\* main(): metrics = MetricsGenerator(); metrics.get_metrics().
\* __init__ sets df_fiscal_metrics to an empty frame and
\* fiscal_facet_metrics to an empty dictionary.  get_metrics assigns
\* df_monthly_metrics; _get_fiscal_metrics then reads row.year_month, a
\* column the query does not return, and raises before df_fiscal_metrics or
\* any entry of fiscal_facet_metrics is assigned.
MetricsGenerator_get_metrics ==
    /\ pc = "stored"
    /\ \E order \in RowOrders(MonthlyQueryRows(log_file, log_request)) :
          df_monthly_metrics' = Frame(MetricsGenerator_get_monthly_metrics(order))
    /\ df_fiscal_metrics' = Frame(<< >>)
    /\ fiscal_facet_metrics' = << >>
    /\ err' = "AttributeError"
    /\ pc' = "done"
    /\ UNCHANGED <<fs, log_file, log_request, runs, paths, parsed_log_paths,
                   df_log_file, df_log_request>>
    /\ UNCHANGED <<convVars, fiscalVars, aggVars>>

\* The process ends; its objects are gone, the store and the files remain.
main_exit ==
    /\ pc = "done"
    /\ pc' = "idle"
    /\ paths' = << >>
    /\ parsed_log_paths' = {}
    /\ df_log_file' = NoFrame
    /\ df_log_request' = NoFrame
    /\ df_monthly_metrics' = NoFrame
    /\ df_fiscal_metrics' = NoFrame
    /\ fiscal_facet_metrics' = << >>
    /\ err' = "none"
    /\ UNCHANGED <<fs, log_file, log_request, runs>>
    /\ UNCHANGED <<convVars, fiscalVars, aggVars>>

Next ==
    \/ AddFile
    \/ LogParser_init
    \/ main_to_sql
    \/ MetricsGenerator_get_metrics
    \/ main_exit

Spec == Init /\ [][Next]_vars

-----------------------------------------------------------------------------
(* SpecInterrupted: runs of main() that may stop inside to_sql *)

\* to_sql stops after df_log_file.to_sql has appended and committed the
\* descriptors and before df_log_request.to_sql has appended the records
\* (the process is killed, or the second insert fails).  The two appends
\* are separate statements with no enclosing transaction.
main_to_sql_interrupted ==
    /\ pc = "parsed"
    /\ ~df_log_file.none /\ ~df_log_request.none
    /\ LET rows == LogParser_cast_period_cols_to_str_file(df_log_file.rows)
       IN  /\ UniquePathAccepts(log_file, rows)
           /\ log_file' = InsertLogFile(log_file, rows)
    /\ err' = "Interrupted"
    /\ pc' = "done"
    /\ UNCHANGED <<fs, log_request, runs, paths, parsed_log_paths, df_log_file,
                   df_log_request, df_monthly_metrics, df_fiscal_metrics,
                   fiscal_facet_metrics>>
    /\ UNCHANGED <<convVars, fiscalVars, aggVars>>

NextInterrupted ==
    \/ Next
    \/ main_to_sql_interrupted

SpecInterrupted == Init /\ [][NextInterrupted]_vars

-----------------------------------------------------------------------------
(* SpecFiscal: the resolver on one calendar (year, month) *)

InitFiscal ==
    /\ cal \in [year : Years, month : 1..12]
    /\ fiscal = NoFrame
    /\ InitConvIdle
    /\ InitAggIdle
    /\ InitRunIdle

\* _add_fiscal_date_cols of LogParser and of MetricsGenerator and
\* resample_to_quarter, each applied to the one-row frame holding `cal`.
Resolve ==
    /\ fiscal.none
    /\ LET row == [year_month |-> cal, year |-> cal.year, month |-> cal.month]
           old == [calendar_yr_month |-> cal, calendar_yr |-> cal.year,
                   calendar_month |-> cal.month]
       IN  fiscal' = Frame(<< LogParser_add_fiscal_date_cols_row(row),
                              MetricsGenerator_add_fiscal_date_cols_row(row),
                              resample_to_quarter_row(old) >>)
    /\ UNCHANGED <<cal, convVars, aggVars, runVars>>

NextFiscal == Resolve

SpecFiscal == InitFiscal /\ [][NextFiscal]_vars

-----------------------------------------------------------------------------
(* Metrics aggregator: LogParser._get_monthly_metrics, _get_fiscal_metrics *)

\* The string order of the project names and facet values that occur.
TextOrder == <<"E3SM", "E3SM CMIP6", "N/A", "atmos", "ocean">>

\* status_code.str.contains("200")
StatusContains200(status_code) == status_code = "200"

\* status_code.str.contains("200|206")
StatusContains200Or206(status_code) == status_code \in {"200", "206"}

\* The row order of sort_values(by=agg_cols): project, the facet when given,
\* then the calendar year-month, year and month.
MonthlyRowLess(a, b, facet) ==
    LET ka == <<IndexOf(TextOrder, a.project),
                IF facet = NoValue THEN 0 ELSE IndexOf(TextOrder, a[facet]),
                a.year_month.year, a.year_month.month, a.year, a.month>>
        kb == <<IndexOf(TextOrder, b.project),
                IF facet = NoValue THEN 0 ELSE IndexOf(TextOrder, b[facet]),
                b.year_month.year, b.year_month.month, b.year, b.month>>
    IN  \E i \in 1..6 : ka[i] < kb[i] /\ \A j \in 1..(i - 1) : ka[j] = kb[j]

RECURSIVE SortedRows(_, _)
SortedRows(S, facet) ==
    IF S = {} THEN << >>
    ELSE LET least == CHOOSE x \in S : \A y \in S \ {x} : MonthlyRowLess(x, y, facet)
         IN  <<least>> \o SortedRows(S \ {least}, facet)

\* LogParser._get_monthly_metrics(facet) on the frame df_log_request.
LogParser_get_monthly_metrics(df_requests, facet) ==
    LET agg_cols == {"project", "year_month", "year", "month"}
                        \cup (IF facet = NoValue THEN {} ELSE {facet})
        \* df[facet] = df[facet].fillna(value="N/A")
        df == [i \in 1..Len(df_requests) |->
                 IF facet = NoValue THEN df_requests[i]
                 ELSE [df_requests[i] EXCEPT ![facet] = IF @ = NoValue THEN "N/A" ELSE @]]
        Key(r) == [c \in agg_cols |-> r[c]]
        IsGet(r) == StatusContains200Or206(r.status_code)
        df_log_get_reqs == SelectSeq(df, IsGet)
        \* value_counts(subset=agg_cols)
        all_keys == { Key(df[i]) : i \in 1..Len(df) }
        get_keys == { Key(df_log_get_reqs[i]) : i \in 1..Len(df_log_get_reqs) }
        Count(frame, k) == Cardinality({ i \in 1..Len(frame) : Key(frame[i]) = k })
        Megabytes(k) == LET In(r) == Key(r) = k
                            g == SelectSeq(df_log_get_reqs, In)
                        IN  SumFrac([i \in 1..Len(g) |-> g[i].megabytes])
        \* the two inner merges on agg_cols keep the keys present in every frame
        merged == { [c \in agg_cols \cup {"total_requests", "total_get_requests", "total_gb"} |->
                        CASE c = "total_requests" -> Count(df, k)
                          [] c = "total_get_requests" -> Count(df_log_get_reqs, k)
                          [] c = "total_gb" -> FracDiv(Megabytes(k), 1024)
                          [] OTHER -> k[c]] : k \in all_keys \cap get_keys }
    IN  SortedRows(merged, facet)

\* _get_fiscal_monthly_cumsums with gb_cols = ["project"] only.
LogParser_get_fiscal_monthly_cumsums_by_project(df, facet) ==
    [i \in 1..Len(df) |->
        LET prior == SetToSeq({ j \in 1..i : df[j].project = df[i].project })
        IN  [c \in DOMAIN df[i] \cup {"cumulative_requests", "cumulative_get_requests",
                                      "cumulative_gb"} |->
                CASE c = "cumulative_requests" ->
                        SumInt([k \in 1..Len(prior) |-> df[prior[k]].total_requests])
                  [] c = "cumulative_get_requests" ->
                        SumInt([k \in 1..Len(prior) |-> df[prior[k]].total_get_requests])
                  [] c = "cumulative_gb" ->
                        SumFrac([k \in 1..Len(prior) |-> df[prior[k]].total_gb])
                  [] OTHER -> df[i][c]]]

\* LogParser._get_fiscal_monthly_cumsums: groupby(gb_cols)[col].cumsum() with
\* gb_cols = ["project", "fiscal_year"] plus the facet, in the frame's row order.
LogParser_get_fiscal_monthly_cumsums(df, facet) ==
    [i \in 1..Len(df) |->
        LET SameGroup(j) == /\ df[j].project = df[i].project
                            /\ df[j].fiscal_year = df[i].fiscal_year
                            /\ facet # NoValue => df[j][facet] = df[i][facet]
            prior == SetToSeq({ j \in 1..i : SameGroup(j) })
        IN  [c \in DOMAIN df[i] \cup {"cumulative_requests", "cumulative_get_requests",
                                      "cumulative_gb"} |->
                CASE c = "cumulative_requests" ->
                        SumInt([k \in 1..Len(prior) |-> df[prior[k]].total_requests])
                  [] c = "cumulative_get_requests" ->
                        SumInt([k \in 1..Len(prior) |-> df[prior[k]].total_get_requests])
                  [] c = "cumulative_gb" ->
                        SumFrac([k \in 1..Len(prior) |-> df[prior[k]].total_gb])
                  [] OTHER -> df[i][c]]]

\* The column list of _reorder_columns.
ReorderColumns(facet) ==
    {"project", "fiscal_year_quarter", "fiscal_year", "fiscal_month", "fiscal_quarter",
     "year_month", "year", "month", "total_requests", "cumulative_requests",
     "total_get_requests", "cumulative_get_requests", "total_gb", "cumulative_gb"}
        \cup (IF facet = NoValue THEN {} ELSE {facet})

-----------------------------------------------------------------------------
(* SpecAgg: the aggregator on a bounded frame of request records *)

\* The request records a frame is drawn from: the columns of df_log_request
\* that the aggregator reads.
AggRecords ==
    { [project |-> pr, year_month |-> ym, year |-> ym.year, month |-> ym.month,
       status_code |-> sm[1], megabytes |-> sm[2], realm |-> rl]
      : pr \in {"E3SM", "E3SM CMIP6"},
        ym \in { [year |-> 2019, month |-> 6], [year |-> 2019, month |-> 7],
                 [year |-> 2020, month |-> 1] },
        sm \in { <<"200", Frac(1, 1)>>, <<"206", Frac(1, 2)>>, <<"404", Frac(1, 4)>> },
        rl \in {NoValue, "ocean"} }

AggRecordUniverse == SetToSeq(AggRecords)

InitAgg ==
    /\ agg_in = << >>
    /\ agg_facet = NoValue
    /\ InitConvIdle
    /\ agg_out = NoFrame
    /\ parser_fiscal_facet_metrics = << >>
    /\ pivot_table = NoFrame
    /\ InitFiscalIdle
    /\ InitRunIdle

\* One more request record in df_log_request.  The aggregator does not depend
\* on the row order of its input, so records are added in the order of
\* AggRecordUniverse; the same record may occur more than once.
AddRecord ==
    /\ agg_out.none
    /\ Len(agg_in) < MaxRecords
    /\ \E i \in 1..Len(AggRecordUniverse) :
          /\ Len(agg_in) > 0 => IndexOf(AggRecordUniverse, agg_in[Len(agg_in)]) <= i
          /\ agg_in' = Append(agg_in, AggRecordUniverse[i])
    /\ UNCHANGED <<agg_facet, agg_out, parser_fiscal_facet_metrics, pivot_table,
                   convVars, fiscalVars, runVars>>

\* _get_fiscal_metrics(_get_monthly_metrics(facet), facet) up to the frame
\* that _get_fiscal_monthly_cumsums returns.
Aggregate ==
    /\ agg_out.none
    /\ \E facet \in {NoValue, "realm"} :
          /\ agg_facet' = facet
          /\ agg_out' = Frame(LogParser_get_fiscal_monthly_cumsums(
                                  LogParser_add_fiscal_date_cols(
                                      LogParser_get_monthly_metrics(agg_in, facet)),
                                  facet))
    /\ UNCHANGED <<agg_in, parser_fiscal_facet_metrics, pivot_table,
                   convVars, fiscalVars, runVars>>

\* get_metrics, the end of the loop body: the selection
\* df_fy_metrics.loc[df_fy_metrics.project == project] is evaluated and its
\* result dropped; the frame itself is stored.
LogParser_get_metrics_facet_table(df_fy_metrics, project) == df_fy_metrics

\* get_metrics, the loop over AVAILABLE_FACETS for the facet of agg_out:
\* one entry for every project that declares the facet.
LogParser_get_metrics_store ==
    /\ ~agg_out.none
    /\ agg_facet # NoValue
    /\ DOMAIN parser_fiscal_facet_metrics = {}
    /\ parser_fiscal_facet_metrics' =
          [pf \in { <<p, agg_facet>> : p \in { q \in PROJECTS : agg_facet \in AVAILABLE_FACETS[q] } } |->
              LogParser_get_metrics_facet_table(agg_out.rows, pf[1])]
    /\ UNCHANGED <<agg_in, agg_facet, agg_out, pivot_table, convVars, fiscalVars, runVars>>

\* pd.pivot_table(df_fy, index="fiscal_month", values=[the three cumulative
\* columns], columns=facet, aggfunc="sum").fillna(0).cumsum(): for every
\* fiscal month of df_fy and every facet value, the sum of each cumulative
\* column over the rows of that month and value (0 when there is none),
\* accumulated down the fiscal months.
PivotTableCumsum(df_fy, facet) ==
    LET months == { df_fy[i].fiscal_month : i \in 1..Len(df_fy) }
        values == { df_fy[i][facet] : i \in 1..Len(df_fy) }
        Cell(m, v) == SetToSeq({ i \in 1..Len(df_fy) :
                                    df_fy[i].fiscal_month = m /\ df_fy[i][facet] = v })
        UpTo(m) == SetToSeq({ n \in months : n <= m })
        CellInt(m, v, col) == SumInt([k \in 1..Len(Cell(m, v)) |-> df_fy[Cell(m, v)[k]][col]])
        CellFrac(m, v, col) == SumFrac([k \in 1..Len(Cell(m, v)) |-> df_fy[Cell(m, v)[k]][col]])
    IN  { [fiscal_month |-> m, value |-> v,
           cumulative_requests |->
               SumInt([k \in 1..Len(UpTo(m)) |-> CellInt(UpTo(m)[k], v, "cumulative_requests")]),
           cumulative_get_requests |->
               SumInt([k \in 1..Len(UpTo(m)) |-> CellInt(UpTo(m)[k], v, "cumulative_get_requests")]),
           cumulative_gb |->
               SumFrac([k \in 1..Len(UpTo(m)) |-> CellFrac(UpTo(m)[k], v, "cumulative_gb")])]
          : m \in months, v \in values }

\* plot_cumsum_by_facet(parser.fiscal_facet_metrics): the plotted points of
\* every (project, facet) table and fiscal year.
plot_cumsum_by_facet ==
    /\ DOMAIN parser_fiscal_facet_metrics # {}
    /\ pivot_table.none
    /\ pivot_table' =
          Frame(SetToSeq(UNION {
              LET df_metrics == parser_fiscal_facet_metrics[pf]
                  fiscal_years == { df_metrics[i].fiscal_year : i \in 1..Len(df_metrics) }
              IN  UNION {
                      LET InYear(r) == r.fiscal_year = fy
                          df_fy == SelectSeq(df_metrics, InYear)
                      IN  { [project |-> pf[1], facet |-> pf[2], fiscal_year |-> fy, point |-> pt]
                            : pt \in PivotTableCumsum(df_fy, pf[2]) }
                      : fy \in fiscal_years }
              : pf \in DOMAIN parser_fiscal_facet_metrics }))
    /\ UNCHANGED <<agg_in, agg_facet, agg_out, parser_fiscal_facet_metrics,
                   convVars, fiscalVars, runVars>>

NextAgg ==
    \/ AddRecord
    \/ Aggregate
    \/ LogParser_get_metrics_store
    \/ plot_cumsum_by_facet

SpecAgg == InitAgg /\ [][NextAgg]_vars

-----------------------------------------------------------------------------
(* SpecBytes: the byte-count conversion on one (bytes, to) pair *)

\* The byte-count fields: the decimal text of k * 1024^s + j, and "-".
ByteTexts ==
    { IntToDigits(k * (1024 ^ s) + j) : k \in 0..MaxMantissa, s \in 0..2, j \in 0..1 }
        \cup { <<"-">> }

\* The units the signature and the docstring of bytes_to list.
DocumentedUnits == {"kb", "mb", "gb", "tb"}

InitBytes ==
    /\ conv_in \in [bytes : ByteTexts, to : DocumentedUnits]
    /\ conv_out = NoFrame
    /\ InitFiscalIdle
    /\ InitAggIdle
    /\ InitRunIdle

\* bytes_to(bytes, to) and the megabytes field _parse_log_line computes.
Convert ==
    /\ conv_out.none
    /\ conv_out' = Frame(<< bytes_to(conv_in.bytes, conv_in.to),
                            [megabytes |-> MegabytesField(conv_in.bytes)] >>)
    /\ UNCHANGED <<conv_in, fiscalVars, aggVars, runVars>>

NextBytes == Convert

SpecBytes == InitBytes /\ [][NextBytes]_vars

-----------------------------------------------------------------------------
(* Properties *)

C2_MetricsGeneratorFiscalPartition ==
    ~df_monthly_metrics.none =>
        LET df == df_monthly_metrics.rows
        IN  \A i, j \in 1..Len(df) :
                df[i].project = df[j].project =>
                    /\ (df[i].year = df[j].year /\ df[i].month = 6 /\ df[j].month = 7) =>
                            df[j].cumsum_requests = df[j].sum_requests
                    /\ (df[j].year = df[i].year + 1 /\ df[i].month = 12 /\ df[j].month = 1) =>
                            df[j].cumsum_requests = df[i].cumsum_requests + df[j].sum_requests

\* C3: the calendar-to-fiscal month table is defined on 1..12 and is a
\* bijection onto 1..12, mapping 7..12 to 1..6 and 1..6 to 7..12;
\* convert_to_fiscal_month holds the same table; every resolver attaches the
\* table's value to a row.
C3_FiscalMonthTable ==
    /\ DOMAIN E3SM_CY_TO_FY_MAP = 1..12
    /\ { E3SM_CY_TO_FY_MAP[m] : m \in 1..12 } = 1..12
    /\ \A m \in 1..12 :
          /\ E3SM_CY_TO_FY_MAP[m] = (IF m >= 7 THEN m - 6 ELSE m + 6)
          /\ convert_to_fiscal_month(m) = E3SM_CY_TO_FY_MAP[m]
    /\ ~fiscal.none =>
          \A i \in 1..Len(fiscal.rows) :
              fiscal.rows[i].fiscal_month = (IF cal.month >= 7 THEN cal.month - 6
                                             ELSE cal.month + 6)

\* The resolvers applied to a December: fiscal month 6.
C3_Witness ==
    /\ ~fiscal.none
    /\ cal.month = 12
    /\ \A i \in 1..3 : fiscal.rows[i].fiscal_month = 6

C5_DescriptorHasFiscalQuarter ==
    ~df_log_file.none =>
        \A i \in 1..Len(df_log_file.rows) :
            /\ "fiscal_quarter" \in DOMAIN df_log_file.rows[i]
            /\ df_log_file.rows[i].fiscal_quarter = (df_log_file.rows[i].fiscal_month + 2) \div 3

\* C6: when discovery returns, the list holds exactly the candidate paths
\* (files of leaf directories whose name contains the access-log prefix) that
\* are not in the set of ingested paths read from the store, without
\* duplicates and in ascending path order; it is empty when every candidate
\* is ingested.
C6_DiscoveryIsSetDifference ==
    (pc # "idle" /\ err # "IndexError") =>
        LET candidates == { FilePath(f) : f \in { g \in fs : /\ ~HasSubDirs(g.dir)
                                                             /\ g.name.stem = "access_log-" } }
        IN  /\ { paths[i] : i \in 1..Len(paths) } = candidates \ parsed_log_paths
            /\ \A i, j \in 1..Len(paths) : i < j => PathLess(paths[i], paths[j])
            /\ candidates \subseteq parsed_log_paths => paths = << >>

\* A second run over a root holding an ingested file and two new ones:
\* discovery returns the two new paths.
C6_Witness ==
    /\ pc = "parsed"
    /\ runs = 2
    /\ Len(paths) = 2
    /\ \E f \in fs : FilePath(f) \in parsed_log_paths

\* C7: the pipeline never violates the uniqueness of log_file.path: the
\* store's paths are pairwise distinct, no run ends with the store rejecting
\* an insert, and every path a run appended was absent from the ingested set
\* that run read at its start.
C7_NoPathAppendedTwice ==
    /\ err # "IntegrityError"
    /\ \A i, j \in 1..Len(log_file) : log_file[i].path = log_file[j].path => i = j
    /\ (pc = "stored" /\ ~df_log_file.none /\ ~df_log_request.none) =>
          \A i \in 1..Len(df_log_file.rows) :
              /\ df_log_file.rows[i].path \notin parsed_log_paths
              /\ df_log_file.rows[i].path \in StorePaths(log_file)

\* A second run that appended a path to a store already holding one.
C7_Witness ==
    /\ pc = "stored"
    /\ runs = 2
    /\ parsed_log_paths # {}
    /\ ~df_log_file.none
    /\ Len(log_file) > Cardinality(parsed_log_paths)

\* C8 as stated: discovery raises the structural validation error exactly
\* when a not-yet-ingested file whose name matches access_log-YYYYMMDD lies
\* on a path without a node token, and then returns no descriptor list.
C8_RaisesOnlyForMatchingNames ==
    pc # "idle" =>
        /\ err = "ValueError" <=>
              \E f \in fs : /\ ~HasSubDirs(f.dir)
                            /\ f.name.stem = "access_log-" /\ f.name.ext = ""
                            /\ FilePath(f) \notin parsed_log_paths
                            /\ f.dir \notin {"aims3", "esgf-data1", "esgf-data3", "esgf-data3/old"}
        /\ err = "ValueError" => df_log_file.none

\* C8 amended: discovery raises the structural validation error exactly when
\* a candidate path (a not-yet-ingested file of a leaf directory whose name
\* contains the access-log prefix, whether or not the name ends with the
\* 8-digit date) has no node token; when it raises, the run holds no
\* descriptor list and no records.
C8_RaisesForAnyCandidate ==
    pc # "idle" =>
        /\ err = "ValueError" <=>
              \E f \in fs : /\ ~HasSubDirs(f.dir)
                            /\ f.name.stem = "access_log-"
                            /\ FilePath(f) \notin parsed_log_paths
                            /\ f.dir \notin {"aims3", "esgf-data1", "esgf-data3", "esgf-data3/old"}
        /\ err = "ValueError" => (pc = "done" /\ df_log_file.none /\ df_log_request.none)

\* The error raised over a root that holds a well-placed access log next to
\* the candidate without a node token.
C8_Witness ==
    /\ pc = "done"
    /\ err = "ValueError"
    /\ df_log_file.none
    /\ \E f \in fs : f.dir = "aims3" /\ FilePath(f) \notin parsed_log_paths
    /\ \E f \in fs : f.dir = "misc"

C10_EmptyDiscoveryEndsCleanly ==
    (pc = "done" /\ Len(paths) = 0) =>
        /\ err = "none"
        /\ df_log_file.none
        /\ df_log_request.none

\* C11: every record of the parse output, the records that reach the
\* aggregator, has status_code 200 or 206: the line filter retains a line
\* only if its status-code field is 200 or 206.
C11_RecordsHaveStatus200Or206 ==
    ~df_log_request.none =>
        \A i \in 1..Len(df_log_request.rows) :
            df_log_request.rows[i].status_code \in {"200", "206"}

\* C12: when a file with a descriptor holds a retained line with fewer than
\* 12 fields, the run does not abort and the parse output holds the records
\* of every other retained line that carries data.
C12_ShortLineIsSkipped ==
    (pc # "idle" /\ ~df_log_file.none) =>
        LET described == { FileAt(df_log_file.rows[i].path) : i \in 1..Len(df_log_file.rows) }
            Retained(l) == l.has_E3SM /\ ~l.has_deny /\ l.has_200_206
        IN  (\E f \in described : \E j \in 1..Len(f.lines) :
                    Retained(f.lines[j]) /\ f.lines[j].nfields < 12) =>
                /\ err # "IndexError"
                /\ ~df_log_request.none
                /\ \A f \in described : \A j \in 1..Len(f.lines) :
                      (/\ Retained(f.lines[j])
                       /\ f.lines[j].nfields >= 12
                       /\ f.lines[j].bytes # <<"-">>) =>
                          \E i \in 1..Len(df_log_request.rows) :
                              df_log_request.rows[i].log_line = f.lines[j]

C14_BytesConversion ==
    ~conv_out.none =>
        LET numeric == conv_in.bytes # <<"-">>
            b == DigitsToInt(conv_in.bytes)
            k == CASE conv_in.to = "kb" -> 1 [] conv_in.to = "mb" -> 2
                   [] conv_in.to = "gb" -> 3 [] conv_in.to = "tb" -> 4
            r == conv_out.rows[1]
            mb == conv_out.rows[2].megabytes
            \* the fraction q in lowest terms equals n / 1024^e
            Equals(q, n, e) == /\ q.d > 0
                               /\ (1024 ^ e) % q.d = 0
                               /\ q.n * ((1024 ^ e) \div q.d) = n
        IN  /\ mb.n >= 0 /\ mb.d > 0
            /\ ~numeric => mb = FracZero
            /\ numeric => Equals(mb, b, 2)
            /\ numeric => (r.err = "none" /\ Equals(r.value, b, k))

\* C15: the aggregator's frame holds exactly one row for every group key
\* (project, calendar year-month[, facet value, "N/A" for a missing one])
\* that occurs among the input records and no other row; the row's
\* total_requests is the number of input records with that key, so the
\* total_requests of a frame add up to the number of input records.
C15_OneRowPerGroupKey ==
    ~agg_out.none =>
        LET df == agg_out.rows
            FacetOf(r) == IF r[agg_facet] = NoValue THEN "N/A" ELSE r[agg_facet]
            SameKey(row, r) ==
                /\ row.project = r.project
                /\ row.year_month = r.year_month
                /\ agg_facet # NoValue => row[agg_facet] = FacetOf(r)
        IN  /\ \A k \in 1..Len(agg_in) :
                  Cardinality({ i \in 1..Len(df) : SameKey(df[i], agg_in[k]) }) = 1
            /\ \A i \in 1..Len(df) :
                  /\ \E k \in 1..Len(agg_in) : SameKey(df[i], agg_in[k])
                  /\ df[i].total_requests =
                        Cardinality({ k \in 1..Len(agg_in) : SameKey(df[i], agg_in[k]) })
            /\ SumInt([i \in 1..Len(df) |-> df[i].total_requests]) = Len(agg_in)

C17_FacetMatrixIsComplete ==
    (pc = "done" /\ ~df_monthly_metrics.none) =>
        /\ err = "none"
        /\ ~df_fiscal_metrics.none
        /\ DOMAIN fiscal_facet_metrics =
              { pf \in (DOMAIN AVAILABLE_FACETS) \X
                          UNION { AVAILABLE_FACETS[q] : q \in DOMAIN AVAILABLE_FACETS } :
                    pf[2] \in AVAILABLE_FACETS[pf[1]] }

\* C18: a record of the parse output whose request path does not contain
\* "/user_pub_work/" has the empty dataset_id and no facet value.
C18_MissingAnchorGivesEmptyDatasetId ==
    ~df_log_request.none =>
        \A i \in 1..Len(df_log_request.rows) :
            LET r == df_log_request.rows[i]
            IN  (\A k \in 1..Len(r.dataset_path) : r.dataset_path[k] # "user_pub_work") =>
                    /\ r.dataset_id = << >>
                    /\ \A f \in {"realm", "data_type", "variable_id", "time_frequency",
                                 "activity"} : r[f] = NoValue

\* C19: every row of log_request references exactly one row of log_file, the
\* row of the file its line was read from, and a file's retained lines with
\* data are in log_request once each.
C19_RequestBelongsToItsLogFile ==
    /\ \A i \in 1..Len(log_request) :
          LET owners == { k \in 1..Len(log_file) : log_file[k].id = log_request[i].log_id }
          IN  /\ Cardinality(owners) = 1
              /\ \A k \in owners :
                    \E j \in 1..Len(FileAt(log_file[k].path).lines) :
                        FileAt(log_file[k].path).lines[j] = log_request[i].log_line
    /\ \A k \in 1..Len(log_file) :
          LET f == FileAt(log_file[k].path)
              Kept(l) == l.has_E3SM /\ ~l.has_deny /\ l.has_200_206 /\ l.bytes # <<"-">>
          IN  \A j \in 1..Len(f.lines) :
                  Cardinality({ i \in 1..Len(log_request) : log_request[i].log_line = f.lines[j] })
                      = (IF Kept(f.lines[j]) THEN 1 ELSE 0)

\* Two files appended by one run, each with a request row of its own.
C19_Witness ==
    /\ pc = "stored"
    /\ Len(log_file) >= 2
    /\ \E i, j \in 1..Len(log_request) : log_request[i].log_id # log_request[j].log_id

\* C20: a run over a root in which every candidate path carries a node token
\* does not end with an error.
C20_OnlyValidationErrorAborts ==
    (pc = "done" /\ \A f \in fs : f.dir # "misc") => err = "none"

\* C21: for every parsed record and every facet declared for its project in
\* AVAILABLE_FACETS, the facet value is the last segment of the dataset
\* identifier that is one of the facet's declared values, and None when no
\* segment is.
C21_FacetIsLastMatchingSegment ==
    ~df_log_request.none =>
        \A i \in 1..Len(df_log_request.rows) :
            LET r == df_log_request.rows[i]
                Declared(p, f) == { FacetOptions[p][f][k] : k \in 1..Len(FacetOptions[p][f]) }
                Matching(p, f) == { k \in 1..Len(r.dataset_id) : r.dataset_id[k] \in Declared(p, f) }
                LastMatch(p, f) ==
                    IF Matching(p, f) = {} THEN NoValue
                    ELSE r.dataset_id[CHOOSE k \in Matching(p, f) :
                                          \A l \in Matching(p, f) : l <= k]
            IN  \A p \in DOMAIN AVAILABLE_FACETS :
                    r.project = p =>
                        \A f \in AVAILABLE_FACETS[p] : r[f] = LastMatch(p, f)

\* C22: for a record whose unescaped request path contains "/user_pub_work/",
\* file_id is the last segment of the text after the anchor and dataset_id
\* is the other segments after the anchor, joined by dots.
C22_IdsAreSegmentsAfterAnchor ==
    ~df_log_request.none =>
        \A i \in 1..Len(df_log_request.rows) :
            LET r == df_log_request.rows[i]
                raw == r.log_line.path
                \* positions (segment, piece) of the raw field, in text order
                pos == UNION { { <<s, q>> : q \in 1..Len(raw[s]) } : s \in 1..Len(raw) }
                Before(a, b) == a[1] < b[1] \/ (a[1] = b[1] /\ a[2] < b[2])
                first == CHOOSE a \in pos : \A b \in pos : a = b \/ Before(a, b)
                last == CHOOSE a \in pos : \A b \in pos : a = b \/ Before(b, a)
                anchors == { a \in pos \ {first, last} : raw[a[1]][a[2]] = "user_pub_work" }
                after(a) == { b \in pos : Before(a, b) }
            IN  anchors # {} =>
                    \E a \in anchors :
                        /\ r.file_id = raw[last[1]][last[2]]
                        /\ Len(r.dataset_id) = Cardinality(after(a)) - 1
                        /\ \A b \in after(a) \ {last} :
                              r.dataset_id[Cardinality({ c \in after(a) : Before(c, b) }) + 1]
                                  = raw[b[1]][b[2]]

\* A record of the escaped CMIP6 request with the dataset_id of its path.
C22_Witness ==
    /\ ~df_log_request.none
    /\ \E i \in 1..Len(df_log_request.rows) :
          /\ df_log_request.rows[i].log_line.path = EscapedCMIP6Path
          /\ df_log_request.rows[i].dataset_id =
                <<"CMIP6", "CMIP", "E3SM-Project", "E3SM-1-0", "historical",
                  "r1i1p1f1", "Amon", "wap", "gr", "v20191220">>
          /\ df_log_request.rows[i].file_id = "wap_Amon.nc"

\* C23: a record has project "E3SM CMIP6" if and only if its unescaped
\* request path contains "/E3SM-Project", and project "E3SM" otherwise.
C23_ProjectFollowsPathMarker ==
    ~df_log_request.none =>
        \A i \in 1..Len(df_log_request.rows) :
            LET r == df_log_request.rows[i]
                raw == r.log_line.path
                marked == \E s \in 1..Len(raw) : \E q \in 1..Len(raw[s]) :
                              (s > 1 \/ q > 1) /\ raw[s][q] = "E3SM-Project"
            IN  /\ r.project \in {"E3SM", "E3SM CMIP6"}
                /\ r.project = "E3SM CMIP6" <=> marked

\* Records of both projects, one of them from an escaped path.
C23_Witness ==
    /\ ~df_log_request.none
    /\ \E i, j \in 1..Len(df_log_request.rows) :
          /\ df_log_request.rows[i].project = "E3SM"
          /\ df_log_request.rows[j].project = "E3SM CMIP6"
          /\ df_log_request.rows[j].log_line.path = EscapedCMIP6Path

\* C24: a record's date is the date of the timestamp field (field 3) of its
\* line, and year, month and year_month are its parts, whatever bracketed
\* date-like text comes earlier in the line.
C24_DateIsTimestampFieldDate ==
    ~df_log_request.none =>
        \A i \in 1..Len(df_log_request.rows) :
            LET r == df_log_request.rows[i]
                d == r.log_line.date
            IN  /\ r.date = d
                /\ r.year = d.year
                /\ r.month = d.month
                /\ r.year_month = [year |-> d.year, month |-> d.month]

\* C25: when a run has computed its monthly totals and cumulative sums, every
\* file in the run's scope (the descriptors of df_log_file) has been parsed
\* completely and its descriptor and its records with data are in the store.
C25_AggregationAfterParsingAndStore ==
    ~df_monthly_metrics.none =>
        /\ pc = "done"
        /\ \A k \in 1..Len(df_log_file.rows) :
              LET path == df_log_file.rows[k].path
              IN  /\ path \in StorePaths(log_file)
                  /\ \A j \in 1..Len(FileAt(path).lines) :
                        LET l == FileAt(path).lines[j]
                        IN  (l.has_E3SM /\ ~l.has_deny /\ l.has_200_206
                                /\ l.bytes # <<"-">>) =>
                                \E i \in 1..Len(log_request) : log_request[i].log_line = l

\* Metrics computed in a run whose scope holds two files with records.
C25_Witness ==
    /\ ~df_monthly_metrics.none
    /\ Len(df_log_file.rows) >= 2
    /\ \A k \in 1..Len(df_log_file.rows) :
          \E i \in 1..Len(log_request) :
              \E j \in 1..Len(FileAt(df_log_file.rows[k].path).lines) :
                  log_request[i].log_line = FileAt(df_log_file.rows[k].path).lines[j]

\* C26: in the metrics computed after any sequence of runs, every stored
\* request is counted in the row of its project and of the year and month of
\* its own date, and that row counts all stored requests of that project and
\* month, whichever run ingested them.
C26_RequestCountedInOwnMonth ==
    ~df_monthly_metrics.none =>
        \A i \in 1..Len(log_request) :
            LET r == log_request[i]
                same == { k \in 1..Len(log_request) :
                            /\ log_request[k].project = r.project
                            /\ log_request[k].year = r.year
                            /\ log_request[k].month = r.month }
            IN  \E j \in 1..Len(df_monthly_metrics.rows) :
                    LET row == df_monthly_metrics.rows[j]
                    IN  /\ row.project = r.project
                        /\ row.year = r.year
                        /\ row.month = r.month
                        /\ row.sum_requests = Cardinality(same)

\* C27: in every run, each path of log_file either has all of its retained
\* lines with data in log_request or is among the files the run parses.
C27_NoRequestsLost ==
    pc # "idle" =>
        \A k \in 1..Len(log_file) :
            LET f == FileAt(log_file[k].path)
                Kept(l) == l.has_E3SM /\ ~l.has_deny /\ l.has_200_206 /\ l.bytes # <<"-">>
            IN  \/ \A j \in 1..Len(f.lines) :
                      Kept(f.lines[j]) =>
                          \E i \in 1..Len(log_request) : log_request[i].log_line = f.lines[j]
                \/ /\ ~df_log_file.none
                   /\ \E i \in 1..Len(df_log_file.rows) :
                         df_log_file.rows[i].path = log_file[k].path

\* C28: the project of every parsed record and of every stored request is one
\* of PROJECTS, the project names that key AVAILABLE_FACETS.
C28_ProjectLabelIsCatalogProject ==
    /\ ~df_log_request.none =>
          \A i \in 1..Len(df_log_request.rows) : df_log_request.rows[i].project \in PROJECTS
    /\ \A i \in 1..Len(log_request) : log_request[i].project \in PROJECTS

\* C29: every table of fiscal_facet_metrics[P][F] holds only rows of
\* project P.
C29_FacetTableHoldsOneProject ==
    \A pf \in DOMAIN parser_fiscal_facet_metrics :
        \A i \in 1..Len(parser_fiscal_facet_metrics[pf]) :
            parser_fiscal_facet_metrics[pf][i].project = pf[1]

\* C30: every value plot_cumsum_by_facet plots for a fiscal year, facet value
\* v and fiscal month m is the sum of the totals of v in the plotted table
\* over the fiscal months of that year up to m.
C30_PlottedValueIsCumulativeValue ==
    ~pivot_table.none =>
        \A n \in 1..Len(pivot_table.rows) :
            LET pl == pivot_table.rows[n]
                df == parser_fiscal_facet_metrics[<<pl.project, pl.facet>>]
                upto == SetToSeq({ i \in 1..Len(df) :
                                      /\ df[i].fiscal_year = pl.fiscal_year
                                      /\ df[i][pl.facet] = pl.point.value
                                      /\ df[i].fiscal_month <= pl.point.fiscal_month })
            IN  /\ pl.point.cumulative_requests =
                      SumInt([k \in 1..Len(upto) |-> df[upto[k]].total_requests])
                /\ pl.point.cumulative_get_requests =
                      SumInt([k \in 1..Len(upto) |-> df[upto[k]].total_get_requests])
                /\ pl.point.cumulative_gb =
                      SumFrac([k \in 1..Len(upto) |-> df[upto[k]].total_gb])

====
